---- MODULE Spec2Model ----
(***************************************************************************)
(* Model of gtsfm's data-association stage (DataAssociation.run in         *)
(* gtsfm/data_association/data_assoc.py): 2D tracks are built from the     *)
(* pairwise correspondences, each track is triangulated, validated and     *)
(* added to the scene, the ratios are computed, the cameras are added and  *)
(* the metrics are assembled.                                              *)
(*                                                                         *)
(* SfmTrack2d.generate_tracks_from_pairwise_matches and Point3dInitializer *)
(* are not among the source files; they are modelled from sections 4.1,    *)
(* 4.2, 6 and 7 of the specification.                                      *)
(*                                                                         *)
(* Further parts: the two filters of DetectorDescriptorBase                *)
(* (gtsfm/frontend/detector_descriptor/detector_descriptor_base.py) and    *)
(* the point-cloud functions of gtsfm/utils/ellipsoid.py, each a pure      *)
(* function applied once to an input drawn from a bounded set.             *)
(***************************************************************************)
EXTENDS Integers, Sequences, FiniteSets, TLC

VARIABLES
    self,                 \* the DataAssociation tuple (configuration)
    cameras,              \* dict image index -> camera, in insertion order
    corr_idxs_dict,       \* the correspondences, in iteration order
    keypoints_list,       \* per image, the keypoints' coordinates
    pc,                   \* position inside run
    tracks_2d,            \* list of 2D tracks
    mean_2d_track_length, \* np.mean(track_lengths), as a fraction
    point3d_initializer,  \* the Point3dInitializer, or None
    idx,                  \* position of the for loop over tracks_2d
    results,              \* what triangulate returned, per processed track
    num_tracks_w_cheirality_exceptions,
    per_accepted_track_avg_errors,
    per_rejected_track_avg_errors,
    triangulated_data,    \* the SfmData: tracks and cameras
    ratios,               \* accepted_tracks_ratio, track_cheirality_failure_ratio
    cam_idx,              \* position of the for loop over cameras.items()
    raised,               \* the exception run raised, or None
    ret,                  \* run's return value, or None
    rerun,                \* which call of run this is, and what the first returned
    max_keypoints,        \* DetectorDescriptorBase: self.max_keypoints
    mask,                 \* filter_by_mask: the (H, W) array of 0's and 1's
    keypoints,            \* the Keypoints handed to a filter
    descriptors,          \* the (M, D) array of descriptors, by rows
    fd_pc,                \* "call", or the filter that was called
    fd_ret,               \* what the filter returned, or None
    fd_raised,            \* the exception the filter raised, or None
    point_cloud,          \* ellipsoid: the array handed to the function
    ell_pc,               \* "call", or the ellipsoid function that was called
    ell_ret,              \* what the function returned, or None
    ell_raised,           \* the exception the function raised, or None
    pairs,                \* read_pair_file: the (V, V) array of view-pair scores
    nviews,               \* read_pair_file: the number of views of a group
    pair_idx,             \* read_pair_file: the sorted and sliced index array
    rp_pc,                \* "call" or "read_pair_file"
    rp_data,              \* the list read_pair_file returned, or None
    zip_artifact_fnames,  \* generate_dashboard: the benchmarks
    merged_tables,        \* per benchmark and table, the merged metric rows
    compute_percentage_change, \* metrics_utils.compute_percentage_change
    written,              \* what was written to the file f, in order
    table_idx,            \* position of the loop over TABLE_NAMES
    zip_idx,              \* position of the loop over zip_artifact_fnames
    benchmark_table_vals, \* per metric name and benchmark, the three values
    db_pc,                \* position inside generate_dashboard
    db_raised,            \* the exception generate_dashboard raised, or None
    plot_args,            \* the arguments of plot_colored_table
    plot_pc,              \* "call" or "plot_colored_table"
    plot_ret              \* what plot_colored_table returned, or None

vars == <<self, cameras, corr_idxs_dict, keypoints_list, pc, tracks_2d,
          mean_2d_track_length, point3d_initializer, idx, results,
          num_tracks_w_cheirality_exceptions, per_accepted_track_avg_errors,
          per_rejected_track_avg_errors, triangulated_data, ratios, cam_idx,
          raised, ret, rerun, max_keypoints, mask, keypoints, descriptors,
          fd_pc, fd_ret, fd_raised, point_cloud, ell_pc, ell_ret, ell_raised,
          pairs, nviews, pair_idx, rp_pc, rp_data, zip_artifact_fnames,
          merged_tables, compute_percentage_change, written, table_idx, zip_idx, benchmark_table_vals, db_pc,
          db_raised, plot_args, plot_pc, plot_ret>>

\* the state of run
run_vars == <<self, cameras, corr_idxs_dict, keypoints_list, pc, tracks_2d,
              mean_2d_track_length, point3d_initializer, idx, results,
              num_tracks_w_cheirality_exceptions, per_accepted_track_avg_errors,
              per_rejected_track_avg_errors, triangulated_data, ratios, cam_idx,
              raised, ret, rerun>>

\* the state of the two filters of DetectorDescriptorBase
fd_vars == <<max_keypoints, mask, keypoints, descriptors, fd_pc, fd_ret, fd_raised>>

\* the state of the functions of utils/ellipsoid.py
ell_vars == <<point_cloud, ell_pc, ell_ret, ell_raised>>

\* the state of read_pair_file
rp_vars == <<pairs, nviews, pair_idx, rp_pc, rp_data>>

\* the state of generate_dashboard
db_vars == <<zip_artifact_fnames, merged_tables, compute_percentage_change, written,
             table_idx, zip_idx, benchmark_table_vals, db_pc, db_raised>>

\* the state of plot_colored_table
plot_vars == <<plot_args, plot_pc, plot_ret>>

\* the state of the functions of the evaluation and densify scripts
script_vars == <<rp_vars, db_vars, plot_vars>>

\* what run does not touch
others == <<fd_vars, ell_vars, script_vars>>

inputs == <<self, cameras, corr_idxs_dict, keypoints_list>>

-----------------------------------------------------------------------------
(* Bounds of the model.                                                    *)

\* most correspondences (rows over all image pairs) in corr_idxs_dict
MaxCorr == 3

\* most correspondences when the camera dict is not the full, ordered one
MaxCorrAnyCameras == 1

\* most entries of the camera dict
MaxCameras == 3

\* the image indices, and the keypoint indices of every image
Images == {0, 1, 2}
KeypointIdxs == {0, 1}

NumImages == Cardinality(Images)

\* Optional values: None is the empty tuple, a present value x is <<x>>.
None == <<>>
Some(x) == <<x>>

\* no exception raised
NoException == "None"

\* nan, the float 0 / 0
NaN == <<0, 0>>

-----------------------------------------------------------------------------
(* Sequences and sets.                                                     *)

Range(s) == {s[j] : j \in DOMAIN s}

RECURSIVE SumSeq(_)
SumSeq(s) == IF s = <<>> THEN 0 ELSE Head(s) + SumSeq(Tail(s))

\* (image, keypoint index) pairs in the order of gtsam's IndexPair
NodeLess(a, b) == a[1] < b[1] \/ (a[1] = b[1] /\ a[2] < b[2])

RECURSIVE SortNodes(_)
SortNodes(S) ==
    IF S = {} THEN <<>>
    ELSE LET m == CHOOSE x \in S : \A y \in S : x = y \/ NodeLess(x, y)
         IN  <<m>> \o SortNodes(S \ {m})

-----------------------------------------------------------------------------
(* Track Builder (spec 4.1): union-find over (image, keypoint index).      *)

\* A correspondence row: keypoint k1 of image i1 matches keypoint k2 of i2.
AllCorr == {[i1 |-> a, k1 |-> x, i2 |-> b, k2 |-> y] :
              a \in Images, b \in Images, x \in KeypointIdxs, y \in KeypointIdxs}

PairCorr == {e \in AllCorr : e.i1 < e.i2}

CorrNodes(corr) ==
    {<<corr[j].i1, corr[j].k1>> : j \in DOMAIN corr}
        \cup {<<corr[j].i2, corr[j].k2>> : j \in DOMAIN corr}

RECURSIVE Find(_, _)
Find(parent, x) == IF parent[x] = x THEN x ELSE Find(parent, parent[x])

\* the union that links the wrong node: the second root is hung under the
\* first node instead of the first root
MergeNoFind(parent, a, b) ==
    LET rb == Find(parent, b)
    IN  IF a = rb THEN parent ELSE [parent EXCEPT ![a] = rb]

Merge(parent, a, b) ==
    LET ra == Find(parent, a)
        rb == Find(parent, b)
    IN  IF ra = rb THEN parent ELSE [parent EXCEPT ![ra] = rb]

RECURSIVE MergeAll(_, _)
MergeAll(parent, corr) ==
    IF corr = <<>> THEN parent
    ELSE LET e == Head(corr)
         IN  MergeAll(Merge(parent, <<e.i1, e.k1>>, <<e.i2, e.k2>>), Tail(corr))

\* the disjoint sets, in the order of their representatives
DsfSets(parent) ==
    LET roots == SortNodes({Find(parent, n) : n \in DOMAIN parent})
    IN  [j \in DOMAIN roots |->
            {n \in DOMAIN parent : Find(parent, n) = roots[j]}]

\* a 2D track: its measurements (image index, coordinates), ordered by node
Track2d(nodes, kps) ==
    LET s == SortNodes(nodes)
    IN  [measurements |->
            [j \in DOMAIN s |-> [i |-> s[j][1], uv |-> kps[s[j][1] + 1][s[j][2] + 1]]]]

number_measurements(track) == Len(track.measurements)

\* the validity check that accepts every component
validate_track_2d_any(track) == TRUE

\* at most one measurement per image index
validate_track_2d(track) ==
    Cardinality({track.measurements[j].i : j \in DOMAIN track.measurements})
        = Len(track.measurements)

generate_tracks_from_pairwise_matches(corr, kps) ==
    LET nodes  == CorrNodes(corr)
        parent == MergeAll([n \in nodes |-> n], corr)
        sets   == DsfSets(parent)
        cands  == [j \in DOMAIN sets |-> Track2d(sets[j], kps)]
    IN  SelectSeq(cands, validate_track_2d)

-----------------------------------------------------------------------------
(* numpy arithmetic used by run.                                           *)

\* np.round(num / den, 3) in thousandths: rint of the scaled value, ties to
\* the even neighbour; nan for 0 / 0 of np.mean over an empty list
Round3Floor(f) == IF f[2] = 0 THEN NaN ELSE (1000 * f[1]) \div f[2]

Round3(f) ==
    IF f[2] = 0 THEN NaN
    ELSE LET q == (1000 * f[1]) \div f[2]
             r == (1000 * f[1]) % f[2]
         IN  IF 2 * r < f[2] THEN q
             ELSE IF 2 * r > f[2] THEN q + 1
             ELSE IF q % 2 = 0 THEN q ELSE q + 1

\* np.mean of a list of integers, as the fraction <<sum, count>>
np_mean(s) == IF s = <<>> THEN NaN ELSE <<SumSeq(s), Len(s)>>

\* numpy indexing of an array of length n: anything outside -n .. n-1 is an
\* IndexError
index_in_bounds(n, i) == -n <= i /\ i < n

\* np.arange(n)[i] for i in bounds: a negative i counts from the end
arange_at(n, i) == IF i < 0 THEN n + i ELSE i

-----------------------------------------------------------------------------
(* Landmark Initializer (spec 4.2, 6, 7).                                  *)

TriangulationParam == {"NO_RANSAC", "RANSAC"}

\* average reprojection errors the initializer may report, in pixels
ErrorValues == {1, 2, 9}

CameraKeys(cams) == {cams[j].key : j \in DOMAIN cams}

\* The exception of the constructor: the hypothesis count is required in
\* RANSAC mode.
Point3dInitializerError(mode, num_ransac_hypotheses) ==
    IF mode = "RANSAC" /\ num_ransac_hypotheses = None
    THEN "ValueError"
    ELSE NoException

Point3dInitializer(track_camera_dict, mode, reproj_error_thresh, num_ransac_hypotheses) ==
    [track_camera_dict |-> track_camera_dict,
     mode |-> mode,
     reproj_error_thresh |-> reproj_error_thresh,
     num_ransac_hypotheses |-> num_ransac_hypotheses]

\* the measurements of s at the positions I, in order
SelectByIdx(s, I) ==
    LET F[j \in 0 .. Len(s)] ==
            IF j = 0 THEN <<>>
            ELSE IF j \in I THEN Append(F[j - 1], s[j]) ELSE F[j - 1]
    IN  F[Len(s)]

\* What triangulate may return for a track: (sfm_track or None, average
\* reprojection error or None, cheirality failure).  j names the fitted point.
\* A measurement of an image without camera skips the track; a degenerate
\* configuration gives no point; an error at or above the threshold and a
\* cheirality failure give None with the error; otherwise the track of the
\* measurements used (all of them, or the inliers in RANSAC mode).
triangulate(init, track_2d, j) ==
    LET L       == Len(track_2d.measurements)
        known   == \A m \in DOMAIN track_2d.measurements :
                       track_2d.measurements[m].i \in CameraKeys(init.track_camera_dict)
        inliers == IF init.mode = "RANSAC"
                   THEN {I \in SUBSET (1 .. L) : Cardinality(I) >= 2}
                   ELSE {1 .. L}
        low     == {e \in ErrorValues : e < init.reproj_error_thresh}
        high    == ErrorValues \ low
        res(t, e, c) == [sfm_track |-> t, avg_track_reproj_error |-> e,
                         is_cheirality_failure |-> c]
    IN  IF ~known
        THEN {res(None, None, FALSE)}
        ELSE {res(None, None, FALSE)}
                 \cup {res(None, Some(e), FALSE) : e \in high}
                 \cup {res(None, e, TRUE) : e \in {None} \cup {Some(x) : x \in ErrorValues}}
                 \cup {res(Some([point3 |-> <<"pt", j>>,
                                 measurements |->
                                     SelectByIdx(track_2d.measurements, I)]),
                           Some(e), FALSE) : I \in inliers, e \in low}

\* the triple triangulate returns
TriangulationResult(t, e, c) ==
    [sfm_track |-> t, avg_track_reproj_error |-> e, is_cheirality_failure |-> c]

\* the minimal subsets a hypothesis is drawn from: two measurements of L
MinimalSubsets(L) == {P \in SUBSET (1 .. L) : Cardinality(P) = 2}

\* the camera of image i agrees with the other cameras on the scene
well_posed(init, i) ==
    \E c \in Range(init.track_camera_dict) : c.key = i /\ c.cam[1] = "camera"

\* triangulate once the geometry is fixed by the inputs: a measurement of a
\* misposed camera is an outlier of every point fitted to the others.  Without
\* RANSAC all measurements are used, and an outlier puts the error above the
\* threshold.  With RANSAC the one hypothesis is fitted to the sampled pair P:
\* a pair of consistent measurements has every consistent measurement as
\* inlier, a pair with the outlier has only itself.
triangulate_sampled(init, track_2d, j, P) ==
    LET meas  == track_2d.measurements
        L     == Len(meas)
        known == \A m \in 1 .. L : meas[m].i \in CameraKeys(init.track_camera_dict)
        good  == {m \in 1 .. L : well_posed(init, meas[m].i)}
        low   == CHOOSE e \in ErrorValues : e < init.reproj_error_thresh
        high  == CHOOSE e \in ErrorValues : e >= init.reproj_error_thresh
        used  == IF init.mode = "RANSAC"
                 THEN IF P \subseteq good THEN good ELSE P
                 ELSE 1 .. L
    IN  IF ~known
        THEN TriangulationResult(None, None, FALSE)
        ELSE IF init.mode # "RANSAC" /\ good # 1 .. L
        THEN TriangulationResult(None, Some(high), FALSE)
        ELSE TriangulationResult(Some([point3 |-> <<"pt", j>>,
                                       measurements |-> SelectByIdx(meas, used)]),
                                 Some(low), FALSE)

-----------------------------------------------------------------------------
(* DataAssociation.run.                                                    *)

\* __validate_track with the comparison off by one
validate_track_strict(sfm_track) ==
    sfm_track # None /\ number_measurements(sfm_track[1]) > self.min_track_len

validate_track(sfm_track) ==
    sfm_track # None /\ number_measurements(sfm_track[1]) >= self.min_track_len

\* the condition of the if of the loop
is_accepted(sfm_track) ==
    sfm_track # None /\ validate_track(sfm_track)

\* the arguments run passes to Point3dInitializer, with a default count in
\* place of the configured one
initializer_args_default ==
    [cameras |-> cameras, mode |-> self.mode,
     reproj_error_thresh |-> self.reproj_error_thresh,
     num_ransac_hypotheses |-> Some(1)]

\* the arguments run passes to Point3dInitializer
initializer_args ==
    [cameras |-> cameras, mode |-> self.mode,
     reproj_error_thresh |-> self.reproj_error_thresh,
     num_ransac_hypotheses |-> self.num_ransac_hypotheses]

\* the index check of the camera loop that lets every key through
camera_check_none(n, i) == NoException

\* the check of one camera key i among n cameras: the exception it ends in
camera_check(n, i) ==
    IF ~index_in_bounds(n, i) THEN "IndexError"
    ELSE IF i # arange_at(n, i) THEN "RuntimeError"
    ELSE NoException

\* the track building that empties the correspondence dict it iterates
BuildTracksConsuming ==
    /\ pc = "tracks"
    /\ tracks_2d' = generate_tracks_from_pairwise_matches(corr_idxs_dict, keypoints_list)
    /\ mean_2d_track_length' =
           np_mean([j \in DOMAIN tracks_2d' |-> number_measurements(tracks_2d'[j])])
    /\ corr_idxs_dict' = <<>>
    /\ pc' = "initializer"
    /\ UNCHANGED <<self, cameras, keypoints_list, rerun, others, point3d_initializer, idx,
                   results, num_tracks_w_cheirality_exceptions,
                   per_accepted_track_avg_errors, per_rejected_track_avg_errors,
                   triangulated_data, ratios, cam_idx, raised, ret>>

\* tracks_2d = generate_tracks_from_pairwise_matches(...), the track metrics
BuildTracks ==
    /\ pc = "tracks"
    /\ tracks_2d' = generate_tracks_from_pairwise_matches(corr_idxs_dict, keypoints_list)
    /\ mean_2d_track_length' =
           np_mean([j \in DOMAIN tracks_2d' |-> number_measurements(tracks_2d'[j])])
    /\ pc' = "initializer"
    /\ UNCHANGED <<inputs, rerun, others, point3d_initializer, idx, results,
                   num_tracks_w_cheirality_exceptions, per_accepted_track_avg_errors,
                   per_rejected_track_avg_errors, triangulated_data, ratios, cam_idx,
                   raised, ret>>

\* point3d_initializer = Point3dInitializer(...), the counters, SfmData()
CreateInitializer ==
    /\ pc = "initializer"
    /\ LET a == initializer_args
           x == Point3dInitializerError(a.mode, a.num_ransac_hypotheses)
       IN  IF x # NoException
           THEN /\ raised' = x
                /\ pc' = "raised"
                /\ UNCHANGED <<point3d_initializer, idx>>
           ELSE /\ point3d_initializer' =
                       Some(Point3dInitializer(a.cameras, a.mode, a.reproj_error_thresh,
                                               a.num_ransac_hypotheses))
                /\ idx' = 1
                /\ pc' = "triangulate"
                /\ UNCHANGED raised
    /\ UNCHANGED <<inputs, rerun, others, tracks_2d, mean_2d_track_length, results,
                   num_tracks_w_cheirality_exceptions, per_accepted_track_avg_errors,
                   per_rejected_track_avg_errors, triangulated_data, ratios, cam_idx,
                   ret>>

\* the loop body that stops the run at a track without a landmark
TriangulateStepAbort(r) ==
    /\ results' = Append(results, r)
    /\ IF r.sfm_track = None
       THEN /\ raised' = "RuntimeError"
            /\ pc' = "raised"
            /\ UNCHANGED <<idx, num_tracks_w_cheirality_exceptions,
                           per_accepted_track_avg_errors,
                           per_rejected_track_avg_errors, triangulated_data>>
       ELSE /\ triangulated_data' =
                   [triangulated_data EXCEPT !.tracks = Append(@, r.sfm_track[1])]
            /\ per_accepted_track_avg_errors' =
                   Append(per_accepted_track_avg_errors, r.avg_track_reproj_error)
            /\ idx' = idx + 1
            /\ UNCHANGED <<raised, pc, num_tracks_w_cheirality_exceptions,
                           per_rejected_track_avg_errors>>

\* the loop body whose else branch appends to the accepted list
TriangulateStepWrongList(r) ==
    /\ results' = Append(results, r)
    /\ num_tracks_w_cheirality_exceptions' =
           IF r.is_cheirality_failure
           THEN num_tracks_w_cheirality_exceptions + 1
           ELSE num_tracks_w_cheirality_exceptions
    /\ IF is_accepted(r.sfm_track)
       THEN /\ triangulated_data' =
                   [triangulated_data EXCEPT !.tracks = Append(@, r.sfm_track[1])]
            /\ per_accepted_track_avg_errors' =
                   Append(per_accepted_track_avg_errors, r.avg_track_reproj_error)
            /\ UNCHANGED per_rejected_track_avg_errors
       ELSE /\ per_accepted_track_avg_errors' =
                   Append(per_accepted_track_avg_errors, r.avg_track_reproj_error)
            /\ UNCHANGED <<triangulated_data, per_rejected_track_avg_errors>>
    /\ idx' = idx + 1
    /\ UNCHANGED <<raised, pc>>

\* the loop body that counts every rejected track as a cheirality failure
TriangulateStepCountRejected(r) ==
    /\ results' = Append(results, r)
    /\ IF is_accepted(r.sfm_track)
       THEN /\ triangulated_data' =
                   [triangulated_data EXCEPT !.tracks = Append(@, r.sfm_track[1])]
            /\ per_accepted_track_avg_errors' =
                   Append(per_accepted_track_avg_errors, r.avg_track_reproj_error)
            /\ UNCHANGED <<per_rejected_track_avg_errors,
                           num_tracks_w_cheirality_exceptions>>
       ELSE /\ per_rejected_track_avg_errors' =
                   Append(per_rejected_track_avg_errors, r.avg_track_reproj_error)
            /\ num_tracks_w_cheirality_exceptions' =
                   num_tracks_w_cheirality_exceptions + 1
            /\ UNCHANGED <<triangulated_data, per_accepted_track_avg_errors>>
    /\ idx' = idx + 1
    /\ UNCHANGED <<raised, pc>>

\* one iteration of the loop over tracks_2d, triangulate having returned r
TriangulateStep(r) ==
    /\ results' = Append(results, r)
    /\ num_tracks_w_cheirality_exceptions' =
           IF r.is_cheirality_failure
           THEN num_tracks_w_cheirality_exceptions + 1
           ELSE num_tracks_w_cheirality_exceptions
    /\ IF is_accepted(r.sfm_track)
       THEN /\ triangulated_data' =
                   [triangulated_data EXCEPT !.tracks = Append(@, r.sfm_track[1])]
            /\ per_accepted_track_avg_errors' =
                   Append(per_accepted_track_avg_errors, r.avg_track_reproj_error)
            /\ UNCHANGED per_rejected_track_avg_errors
       ELSE /\ per_rejected_track_avg_errors' =
                   Append(per_rejected_track_avg_errors, r.avg_track_reproj_error)
            /\ UNCHANGED <<triangulated_data, per_accepted_track_avg_errors>>
    /\ idx' = idx + 1
    /\ UNCHANGED <<raised, pc>>

TriangulateTrack ==
    /\ pc = "triangulate"
    /\ idx <= Len(tracks_2d)
    /\ \E r \in triangulate(point3d_initializer[1], tracks_2d[idx], idx) :
           TriangulateStep(r)
    /\ UNCHANGED <<inputs, rerun, others, tracks_2d, mean_2d_track_length, point3d_initializer,
                   ratios, cam_idx, ret>>

\* one iteration of the loop, the hypothesis of the RANSAC mode being drawn
\* from the process-wide random generator: any minimal subset
TriangulateTrackSampled ==
    /\ pc = "triangulate"
    /\ idx <= Len(tracks_2d)
    /\ \E P \in MinimalSubsets(Len(tracks_2d[idx].measurements)) :
           TriangulateStep(triangulate_sampled(point3d_initializer[1],
                                               tracks_2d[idx], idx, P))
    /\ UNCHANGED <<inputs, rerun, others, tracks_2d, mean_2d_track_length, point3d_initializer,
                   ratios, cam_idx, ret>>

\* the loop is over: num_accepted_tracks and the two ratios
ComputeRatios ==
    /\ pc = "triangulate"
    /\ idx > Len(tracks_2d)
    /\ IF Len(tracks_2d) = 0
       THEN /\ raised' = "ZeroDivisionError"
            /\ pc' = "raised"
            /\ UNCHANGED <<ratios, cam_idx>>
       ELSE /\ ratios' =
                   [accepted_tracks_ratio |->
                        <<Len(triangulated_data.tracks), Len(tracks_2d)>>,
                    track_cheirality_failure_ratio |->
                        <<num_tracks_w_cheirality_exceptions, Len(tracks_2d)>>]
            /\ cam_idx' = 1
            /\ pc' = "cameras"
            /\ UNCHANGED raised
    /\ UNCHANGED <<inputs, rerun, others, tracks_2d, mean_2d_track_length, point3d_initializer,
                   idx, results, num_tracks_w_cheirality_exceptions,
                   per_accepted_track_avg_errors, per_rejected_track_avg_errors,
                   triangulated_data, ret>>

\* one iteration of the loop over cameras.items()
AddCamera ==
    /\ pc = "cameras"
    /\ cam_idx <= Len(cameras)
    /\ LET c == camera_check(Len(cameras), cameras[cam_idx].key)
       IN  IF c # NoException
           THEN /\ raised' = c
                /\ pc' = "raised"
                /\ UNCHANGED <<triangulated_data, cam_idx>>
           ELSE /\ triangulated_data' =
                       [triangulated_data EXCEPT
                           !.cameras = Append(@, cameras[cam_idx].cam)]
                /\ cam_idx' = cam_idx + 1
                /\ UNCHANGED <<raised, pc>>
    /\ UNCHANGED <<inputs, rerun, others, tracks_2d, mean_2d_track_length, point3d_initializer,
                   idx, results, num_tracks_w_cheirality_exceptions,
                   per_accepted_track_avg_errors, per_rejected_track_avg_errors,
                   ratios, ret>>

\* track_lengths_3d of get_track_length_statistics
track_lengths_3d(data) ==
    [j \in DOMAIN data.tracks |-> number_measurements(data.tracks[j])]

\* the count of the tracks with k measurements or more
num_len_k_tracks_atleast(data, k) ==
    Cardinality({j \in DOMAIN data.tracks : track_lengths_3d(data)[j] >= k})

\* int(np.sum(track_lengths_3d == k))
num_len_k_tracks(data, k) ==
    Cardinality({j \in DOMAIN data.tracks : track_lengths_3d(data)[j] = k})

\* the metrics with the points listed from the last track to the first
data_assoc_metrics_reversed ==
    [mean_2d_track_length |-> Round3(mean_2d_track_length),
     accepted_tracks_ratio |-> Round3(ratios.accepted_tracks_ratio),
     track_cheirality_failure_ratio |-> Round3(ratios.track_cheirality_failure_ratio),
     num_accepted_tracks |-> ratios.accepted_tracks_ratio[1],
     num_len_tracks |-> [k \in 2 .. 10 |-> num_len_k_tracks(triangulated_data, k)],
     per_rejected_track_avg_errors |-> per_rejected_track_avg_errors,
     per_accepted_track_avg_errors |-> per_accepted_track_avg_errors,
     points_3d |-> [j \in 1 .. ratios.accepted_tracks_ratio[1] |->
                       triangulated_data.tracks[
                           (ratios.accepted_tracks_ratio[1] + 1) - j].point3]]

data_assoc_metrics ==
    [mean_2d_track_length |-> Round3(mean_2d_track_length),
     accepted_tracks_ratio |-> Round3(ratios.accepted_tracks_ratio),
     track_cheirality_failure_ratio |-> Round3(ratios.track_cheirality_failure_ratio),
     num_accepted_tracks |-> ratios.accepted_tracks_ratio[1],
     num_len_tracks |-> [k \in 2 .. 10 |-> num_len_k_tracks(triangulated_data, k)],
     per_rejected_track_avg_errors |-> per_rejected_track_avg_errors,
     per_accepted_track_avg_errors |-> per_accepted_track_avg_errors,
     points_3d |-> [j \in 1 .. ratios.accepted_tracks_ratio[1] |->
                       triangulated_data.tracks[j].point3]]

\* the cameras are added: the metrics, and the return
Return ==
    /\ pc = "cameras"
    /\ cam_idx > Len(cameras)
    /\ ret' = Some([scene |-> triangulated_data, metrics |-> data_assoc_metrics])
    /\ pc' = "returned"
    /\ UNCHANGED <<inputs, rerun, others, tracks_2d, mean_2d_track_length, point3d_initializer,
                   idx, results, num_tracks_w_cheirality_exceptions,
                   per_accepted_track_avg_errors, per_rejected_track_avg_errors,
                   triangulated_data, ratios, cam_idx, raised>>

-----------------------------------------------------------------------------
(* Inputs and specifications.                                              *)

\* sequences of at most n distinct correspondences
RECURSIVE CorrSeqs(_)
CorrSeqs(n) ==
    IF n = 0 THEN {<<>>}
    ELSE LET shorter == CorrSeqs(n - 1)
         IN  shorter \cup {Append(s, e) : s \in shorter, e \in PairCorr}

DistinctSeq(s) == Cardinality(Range(s)) = Len(s)

CorrKey(e) ==
    <<(e.i1 * NumImages) + e.i2, (e.k1 * Cardinality(KeypointIdxs)) + e.k2>>

\* pairs in ascending order, rows in ascending order
Ascending(s) ==
    \A j \in 1 .. (Len(s) - 1) : NodeLess(CorrKey(s[j]), CorrKey(s[j + 1]))

\* camera dicts: distinct keys in any insertion order
RECURSIVE KeySeqs(_)
KeySeqs(n) ==
    IF n = 0 THEN {<<>>}
    ELSE LET shorter == KeySeqs(n - 1)
         IN  shorter \cup {Append(s, k) : s \in shorter, k \in {-1} \cup Images}

Camera(i) == <<"camera", i>>

CameraDict(s) == [j \in DOMAIN s |-> [key |-> s[j], cam |-> Camera(s[j])]]

CameraInputs == {CameraDict(s) : s \in {t \in KeySeqs(MaxCameras) : DistinctSeq(t)}}

\* one camera per image, inserted in the order of the image indices
AllCameras == CameraDict([j \in 1 .. NumImages |-> j - 1])

CorrInputs == {s \in CorrSeqs(MaxCorr) : DistinctSeq(s) /\ Ascending(s)}

Configs ==
    [reproj_error_thresh : {5}, min_track_len : {2, 3},
     mode : TriangulationParam, num_ransac_hypotheses : {None, Some(1)}]

\* keypoints_list: the coordinates of keypoint k of image i, named <<i, k>>
Keypoints ==
    [i \in 1 .. NumImages |->
        [k \in 1 .. Cardinality(KeypointIdxs) |-> <<i - 1, k - 1>>]]

Start ==
    /\ keypoints_list = Keypoints
    /\ pc = "tracks"
    /\ tracks_2d = <<>>
    /\ mean_2d_track_length = NaN
    /\ point3d_initializer = None
    /\ idx = 0
    /\ results = <<>>
    /\ num_tracks_w_cheirality_exceptions = 0
    /\ per_accepted_track_avg_errors = <<>>
    /\ per_rejected_track_avg_errors = <<>>
    /\ triangulated_data = [tracks |-> <<>>, cameras |-> <<>>]
    /\ ratios = [accepted_tracks_ratio |-> NaN, track_cheirality_failure_ratio |-> NaN]
    /\ cam_idx = 0
    /\ raised = NoException
    /\ ret = None

\* no filter of DetectorDescriptorBase is in use
NoFilterCall ==
    /\ max_keypoints = 0
    /\ mask = <<>>
    /\ keypoints = [coordinates |-> <<>>, responses |-> None]
    /\ descriptors = <<>>
    /\ fd_pc = "idle"
    /\ fd_ret = None
    /\ fd_raised = NoException

\* no function of utils/ellipsoid.py is in use
NoEllipsoidCall ==
    /\ point_cloud = [shape |-> <<0, 3>>, rows |-> <<>>]
    /\ ell_pc = "idle"
    /\ ell_ret = None
    /\ ell_raised = NoException

\* read_pair_file is not in use
NoPairFileCall ==
    /\ pairs = <<>>
    /\ nviews = 0
    /\ pair_idx = <<>>
    /\ rp_pc = "idle"
    /\ rp_data = None

\* generate_dashboard is not in use
NoDashboardCall ==
    /\ zip_artifact_fnames = <<>>
    /\ merged_tables = <<>>
    /\ compute_percentage_change = <<>>
    /\ written = <<>>
    /\ table_idx = 0
    /\ zip_idx = 0
    /\ benchmark_table_vals = <<>>
    /\ db_pc = "idle"
    /\ db_raised = NoException

\* plot_colored_table is not in use
NoPlotCall ==
    /\ plot_args = <<>>
    /\ plot_pc = "idle"
    /\ plot_ret = None

NoScriptCall == NoPairFileCall /\ NoDashboardCall /\ NoPlotCall

\* the first call of run
FirstRun == rerun = [no |-> 1, prev |-> None]

Init ==
    /\ self \in Configs
    /\ \/ /\ cameras = AllCameras
          /\ corr_idxs_dict \in CorrInputs
       \/ /\ cameras \in CameraInputs
          /\ corr_idxs_dict \in {s \in CorrInputs : Len(s) <= MaxCorrAnyCameras}
    /\ Start
    /\ FirstRun
    /\ NoFilterCall
    /\ NoEllipsoidCall
    /\ NoScriptCall

Next ==
    \/ BuildTracks
    \/ CreateInitializer
    \/ TriangulateTrack
    \/ ComputeRatios
    \/ AddCamera
    \/ Return

Spec == Init /\ [][Next]_vars

\* the Track Builder alone, over every iteration order of the correspondences
TrackInit ==
    /\ self = [reproj_error_thresh |-> 5, min_track_len |-> 2,
               mode |-> "NO_RANSAC", num_ransac_hypotheses |-> None]
    /\ cameras = AllCameras
    /\ corr_idxs_dict \in {s \in CorrSeqs(MaxCorr) : DistinctSeq(s)}
    /\ Start
    /\ FirstRun
    /\ NoFilterCall
    /\ NoEllipsoidCall
    /\ NoScriptCall

TrackSpec == TrackInit /\ [][BuildTracks]_vars

\* run has returned and is called again on the same object with the same
\* arguments, in the same process
RunAgain ==
    /\ pc = "returned"
    /\ rerun.no = 1
    /\ rerun' = [no |-> 2, prev |-> ret]
    /\ pc' = "tracks"
    /\ tracks_2d' = <<>>
    /\ mean_2d_track_length' = NaN
    /\ point3d_initializer' = None
    /\ idx' = 0
    /\ results' = <<>>
    /\ num_tracks_w_cheirality_exceptions' = 0
    /\ per_accepted_track_avg_errors' = <<>>
    /\ per_rejected_track_avg_errors' = <<>>
    /\ triangulated_data' = [tracks |-> <<>>, cameras |-> <<>>]
    /\ ratios' = [accepted_tracks_ratio |-> NaN, track_cheirality_failure_ratio |-> NaN]
    /\ cam_idx' = 0
    /\ raised' = NoException
    /\ ret' = None
    /\ UNCHANGED <<inputs, others>>

\* a camera whose pose disagrees with the other cameras
MisposedCamera(i) == <<"misposed camera", i>>

\* one camera per image, at most one of them misposed
PosedCameras ==
    {AllCameras} \cup
    {[AllCameras EXCEPT ![j].cam = MisposedCamera(AllCameras[j].key)] :
         j \in DOMAIN AllCameras}

\* two calls of run in a row, the geometry being what the inputs say
TwoRunInit ==
    /\ self \in Configs
    /\ cameras \in PosedCameras
    /\ corr_idxs_dict \in CorrInputs
    /\ Start
    /\ FirstRun
    /\ NoFilterCall
    /\ NoEllipsoidCall
    /\ NoScriptCall

TwoRunNext ==
    \/ BuildTracks
    \/ CreateInitializer
    \/ TriangulateTrackSampled
    \/ ComputeRatios
    \/ AddCamera
    \/ Return
    \/ RunAgain

TwoRunSpec == TwoRunInit /\ [][TwoRunNext]_vars

-----------------------------------------------------------------------------
(* DetectorDescriptorBase: filter_by_response and filter_by_mask.  Arrays  *)
(* are sequences; position j of a sequence is index j - 1 of the array.    *)
(* Coordinates are in half pixels, so that np.round has ties to settle.    *)

\* s[: n] of Python: the first n elements, all but the last -n for n < 0
SliceTo(s, n) ==
    LET m == IF n >= 0
             THEN IF n < Len(s) THEN n ELSE Len(s)
             ELSE IF Len(s) + n > 0 THEN Len(s) + n ELSE 0
    IN  SubSeq(s, 1, m)

\* the orders of the positions 1 .. n
IndexOrders(n) ==
    {p \in [1 .. n -> 1 .. n] : \A i, j \in 1 .. n : i # j => p[i] # p[j]}

\* np.argsort(a): the positions of a in ascending order of the values; the
\* default sort is not stable, equal values come in any order
argsort(a) ==
    {p \in IndexOrders(Len(a)) :
        \A j \in 1 .. (Len(a) - 1) : a[p[j]] <= a[p[j + 1]]}

\* -keypoints.responses
negated(a) == [j \in DOMAIN a |-> 0 - a[j]]

\* a[idxs] of numpy for an index array idxs
take(a, idxs) == [p \in DOMAIN idxs |-> a[idxs[p]]]

\* Keypoints.extract_indices: the sub-selection by index list, in its order
extract_indices(kps, idxs) ==
    [coordinates |-> take(kps.coordinates, idxs),
     responses |-> IF kps.responses = None THEN None
                   ELSE Some(take(kps.responses[1], idxs))]

\* filter_by_response sorting by ascending response
filter_by_response_ascending(kps, desc) ==
    IF kps.responses = None
    THEN {[keypoints |-> kps, descriptors |-> desc]}
    ELSE {LET sort_idxs == SliceTo(p, max_keypoints)
          IN  [keypoints |-> extract_indices(kps, sort_idxs),
               descriptors |-> take(desc, sort_idxs)] :
              p \in argsort(kps.responses[1])}

\* what filter_by_response may return
filter_by_response(kps, desc) ==
    IF kps.responses = None
    THEN {[keypoints |-> kps, descriptors |-> desc]}
    ELSE {LET sort_idxs == SliceTo(p, max_keypoints)
          IN  [keypoints |-> extract_indices(kps, sort_idxs),
               descriptors |-> take(desc, sort_idxs)] :
              p \in argsort(negated(kps.responses[1]))}

\* np.round of h / 2: the nearest integer, a tie going to the even one
RoundHalfEven(h) ==
    LET lo == h \div 2
    IN  IF h % 2 = 0 THEN lo
        ELSE IF lo % 2 = 0 THEN lo ELSE lo + 1

\* np.round(keypoints.coordinates).astype(int): rows of (x, y)
rounded_coordinates(kps) ==
    [j \in DOMAIN kps.coordinates |->
        <<RoundHalfEven(kps.coordinates[j][1]), RoundHalfEven(kps.coordinates[j][2])>>]

\* np.flatnonzero(b): the positions where b holds, ascending
flatnonzero(b) ==
    LET F[j \in 0 .. Len(b)] ==
            IF j = 0 THEN <<>>
            ELSE IF b[j] THEN Append(F[j - 1], j) ELSE F[j - 1]
    IN  F[Len(b)]

\* mask[y, x] for indices in bounds: a negative index counts from the end
mask_at(msk, y, x) ==
    msk[arange_at(Len(msk), y) + 1][arange_at(Len(msk[1]), x) + 1]

\* filter_by_mask: the exception, or the kept keypoints and descriptors
filter_by_mask(msk, kps, desc) ==
    LET rc  == rounded_coordinates(kps)
        inb == \A j \in DOMAIN rc :
                   /\ index_in_bounds(Len(msk), rc[j][2])
                   /\ index_in_bounds(Len(msk[1]), rc[j][1])
        valid_idxs == flatnonzero([j \in DOMAIN rc |-> mask_at(msk, rc[j][2], rc[j][1]) = 1])
    IN  IF ~inb
        THEN [raised |-> "IndexError", ret |-> None]
        ELSE [raised |-> NoException,
              ret |-> Some([keypoints |-> extract_indices(kps, valid_idxs),
                            descriptors |-> take(desc, valid_idxs)])]

FilterByResponse ==
    /\ fd_pc = "call"
    /\ \E r \in filter_by_response(keypoints, descriptors) : fd_ret' = Some(r)
    /\ fd_pc' = "filter_by_response"
    /\ UNCHANGED <<max_keypoints, mask, keypoints, descriptors, fd_raised,
                   run_vars, ell_vars, script_vars>>

FilterByMask ==
    /\ fd_pc = "call"
    /\ LET r == filter_by_mask(mask, keypoints, descriptors)
       IN  fd_raised' = r.raised /\ fd_ret' = r.ret
    /\ fd_pc' = "filter_by_mask"
    /\ UNCHANGED <<max_keypoints, mask, keypoints, descriptors, run_vars, ell_vars,
                   script_vars>>

\* run is not in use
NoRunCall ==
    /\ self = [reproj_error_thresh |-> 5, min_track_len |-> 2,
               mode |-> "NO_RANSAC", num_ransac_hypotheses |-> None]
    /\ cameras = <<>>
    /\ corr_idxs_dict = <<>>
    /\ Start
    /\ FirstRun

MaxKeypoints == 3

MaxMaskKeypoints == 2

ResponseValues == {1, 2, 3}

\* row j of the descriptor array
Descriptor(j) == <<"descriptor", j>>

\* M keypoints on the diagonal, with or without responses
ResponseKeypoints(M) ==
    {[coordinates |-> [j \in 1 .. M |-> <<2 * j, 2 * j>>], responses |-> r] :
        r \in {None} \cup {Some(f) : f \in [1 .. M -> ResponseValues]}}

ResponseInit ==
    /\ max_keypoints \in 0 .. (MaxKeypoints + 1)
    /\ mask = <<>>
    /\ \E M \in 0 .. MaxKeypoints :
           /\ keypoints \in ResponseKeypoints(M)
           /\ descriptors = [j \in 1 .. M |-> Descriptor(j)]
    /\ fd_pc = "call"
    /\ fd_ret = None
    /\ fd_raised = NoException
    /\ NoRunCall
    /\ NoEllipsoidCall
    /\ NoScriptCall

ResponseSpec == ResponseInit /\ [][FilterByResponse]_vars

MaskRows == {0, 1}

MaskCols == {0, 1, 2}

Masks == [1 .. Cardinality(MaskRows) -> [1 .. Cardinality(MaskCols) -> {0, 1}]]

\* coordinates in half pixels: -1.0, 0.5, 1.0, 1.5, 2.5
CoordHalves == {-2, 1, 2, 3, 5}

RECURSIVE CoordSeqs(_)
CoordSeqs(n) ==
    IF n = 0 THEN {<<>>}
    ELSE LET shorter == CoordSeqs(n - 1)
         IN  shorter \cup {Append(c, <<x, y>>) :
                               c \in shorter, x \in CoordHalves, y \in CoordHalves}

MaskInit ==
    /\ max_keypoints = MaxKeypoints
    /\ mask \in Masks
    /\ \E c \in CoordSeqs(MaxMaskKeypoints) :
           /\ keypoints = [coordinates |-> c, responses |-> None]
           /\ descriptors = [j \in DOMAIN c |-> Descriptor(j)]
    /\ fd_pc = "call"
    /\ fd_ret = None
    /\ fd_raised = NoException
    /\ NoRunCall
    /\ NoEllipsoidCall
    /\ NoScriptCall

MaskSpec == MaskInit /\ [][FilterByMask]_vars

-----------------------------------------------------------------------------
(* utils/ellipsoid.py.  An array of shape (N, D) is its shape and its N    *)
(* rows of D integers.  A function gives the exception it raises or the    *)
(* value it returns.                                                       *)

OUTLIER_DISTANCE_PERCENTILE == 95

Raises(x) == [raised |-> x, ret |-> None]

Returns(v) == [raised |-> NoException, ret |-> Some(v)]

\* column c of the rows
Column(rows, c) == [j \in DOMAIN rows |-> rows[j][c]]

\* center_point_cloud with the check on the number of rows
center_point_cloud_checks_rows(cloud) ==
    IF cloud.shape[1] # 3
    THEN Raises("TypeError")
    ELSE LET N    == cloud.shape[1]
             mean == [c \in 1 .. 3 |-> np_mean(Column(cloud.rows, c))]
         IN  Returns([points_centered |->
                          [j \in 1 .. N |->
                              [c \in 1 .. 3 |->
                                  <<(N * cloud.rows[j][c]) - mean[c][1], N>>]],
                      mean |-> mean])

\* center_point_cloud: the mean of each column as a fraction, and the rows
\* minus the mean as fractions over N
center_point_cloud(cloud) ==
    IF cloud.shape[2] # 3
    THEN Raises("TypeError")
    ELSE LET N    == cloud.shape[1]
             mean == [c \in 1 .. 3 |-> np_mean(Column(cloud.rows, c))]
         IN  Returns([points_centered |->
                          [j \in 1 .. N |->
                              [c \in 1 .. 3 |->
                                  <<(N * cloud.rows[j][c]) - mean[c][1], N>>]],
                      mean |-> mean])

\* the square of np.linalg.norm of a row: the norms compare as their squares
SqNorm(row) == (row[1] * row[1]) + (row[2] * row[2]) + (row[3] * row[3])

\* the element at index k of the values of a in ascending order
KthSmallest(a, k) ==
    CHOOSE v \in Range(a) :
        /\ Cardinality({i \in DOMAIN a : a[i] < v}) <= k
        /\ k < Cardinality({i \in DOMAIN a : a[i] <= v})

\* mags < np.percentile(mags, q) for N >= 1 magnitudes given by their squares.
\* The percentile interpolates linearly between the sorted elements at
\* floor(h) and floor(h) + 1 for h = q * (N - 1) / 100: it is the lower one
\* when h is whole or the two are equal, and lies strictly between them
\* otherwise.
below_percentile(sq, q) ==
    LET N    == Len(sq)
        lo   == (q * (N - 1)) \div 100
        frac == (q * (N - 1)) % 100
        hi   == IF lo + 1 < N THEN lo + 1 ELSE lo
        a    == KthSmallest(sq, lo)
        b    == KthSmallest(sq, hi)
    IN  [j \in DOMAIN sq |->
            IF frac = 0 \/ a = b THEN sq[j] < a ELSE sq[j] <= a]

\* what remove_outlier_points may do.  On an empty array np.percentile
\* raises IndexError or gives nan, depending on the numpy at hand; nothing
\* is below nan.
remove_outlier_points(cloud) ==
    IF cloud.shape[2] # 3
    THEN {Raises("TypeError")}
    ELSE IF cloud.shape[1] = 0
    THEN {Raises("IndexError"), Returns([shape |-> <<0, 3>>, rows |-> <<>>])}
    ELSE LET mags == [j \in DOMAIN cloud.rows |-> SqNorm(cloud.rows[j])]
             kept == flatnonzero(below_percentile(mags, OUTLIER_DISTANCE_PERCENTILE))
         IN  {Returns([shape |-> <<Len(kept), 3>>, rows |-> take(cloud.rows, kept)])}

\* A.T @ A
gram_matrix(A) ==
    [r \in 1 .. 3 |->
        [c \in 1 .. 3 |->
            SumSeq([j \in DOMAIN A.rows |-> A.rows[j][r] * A.rows[j][c]])]]

\* get_right_singular_vectors: the eigenvectors of A.T @ A by descending
\* eigenvalue, named by the matrix they belong to
get_right_singular_vectors(A) ==
    IF A.shape[2] # 3
    THEN Raises("TypeError")
    ELSE Returns(<<"eigvecs", gram_matrix(A)>>)

\* get_alignment_rotation_matrix_from_svd: the transpose of the right
\* singular vectors, or the rotation closest to it
get_alignment_rotation_matrix_from_svd(cloud) ==
    IF cloud.shape[2] # 3
    THEN Raises("TypeError")
    ELSE LET V == get_right_singular_vectors(cloud)
         IN  IF V.raised # NoException THEN V
             ELSE Returns(<<"rotation", V.ret[1]>>)

\* the function named f is called and ends as r says
EllipsoidCall(f, r) ==
    /\ ell_pc = "call"
    /\ ell_pc' = f
    /\ ell_raised' = r.raised
    /\ ell_ret' = r.ret
    /\ UNCHANGED <<point_cloud, run_vars, fd_vars, script_vars>>

CenterPointCloud ==
    EllipsoidCall("center_point_cloud", center_point_cloud(point_cloud))

RemoveOutlierPoints ==
    \E r \in remove_outlier_points(point_cloud) :
        EllipsoidCall("remove_outlier_points", r)

GetAlignmentRotationMatrixFromSvd ==
    EllipsoidCall("get_alignment_rotation_matrix_from_svd",
                  get_alignment_rotation_matrix_from_svd(point_cloud))

GetRightSingularVectors ==
    EllipsoidCall("get_right_singular_vectors", get_right_singular_vectors(point_cloud))

MaxPoints == 2

\* the coordinates of the small clouds
Coords == {-1, 0, 2}

\* the second dimensions of the arrays
ColumnCounts == {2, 3, 4}

RECURSIVE PointSeqs(_)
PointSeqs(n) ==
    IF n = 0 THEN {<<>>}
    ELSE {Append(s, <<x, y, z>>) :
              s \in PointSeqs(n - 1), x \in Coords, y \in Coords, z \in Coords}

\* every (N, 3) array of at most MaxPoints points, and the zero arrays of the
\* other widths
SmallClouds ==
    {[shape |-> <<Len(s), 3>>, rows |-> s] :
        s \in UNION {PointSeqs(n) : n \in 0 .. MaxPoints}}
    \cup {[shape |-> <<n, d>>, rows |-> [j \in 1 .. n |-> [c \in 1 .. d |-> 0]]] :
              n \in 0 .. MaxPoints, d \in ColumnCounts \ {3}}

\* points far from the origin, two of them equally far
FarPoints == {<<30, 0, 0>>, <<0, 0, 30>>, <<0, 31, 0>>}

\* twenty points at the distances 1 .. 20 from the origin
TwentyPoints == [j \in 1 .. 20 |-> <<j, 0, 0>>]

\* the twenty points with at most two of them moved far away
LargeClouds ==
    {[shape |-> <<20, 3>>, rows |-> s] :
        s \in {TwentyPoints}
               \cup {[TwentyPoints EXCEPT ![i] = f] : i \in 1 .. 20, f \in FarPoints}
               \cup {[TwentyPoints EXCEPT ![i] = f, ![j] = g] :
                         i \in 1 .. 20, j \in 1 .. 20, f \in FarPoints, g \in FarPoints}}

EllipsoidInit ==
    /\ point_cloud \in SmallClouds \cup LargeClouds
    /\ ell_pc = "call"
    /\ ell_ret = None
    /\ ell_raised = NoException
    /\ NoRunCall
    /\ NoFilterCall
    /\ NoScriptCall

EllipsoidNext ==
    \/ CenterPointCloud
    \/ RemoveOutlierPoints
    \/ GetAlignmentRotationMatrixFromSvd
    \/ GetRightSingularVectors

EllipsoidSpec == EllipsoidInit /\ [][EllipsoidNext]_vars

-----------------------------------------------------------------------------
(* eval_gtsfm.py: read_pair_file.  Views are numbered from 0 as in the     *)
(* source; the rows and columns of an array are sequences, so that view v  *)
(* is at position v + 1.                                                   *)

\* -np.inf, below every score
NegInf == 0

\* pairs[i][i] = -np.inf for every i in range(num_viewpoint)
mask_diagonal(a) ==
    [i \in DOMAIN a |-> [j \in DOMAIN a[i] |-> IF i = j THEN NegInf ELSE a[i][j]]]

\* np.argsort(a, axis=0): every column is sorted on its own, entry [k][j] is
\* the row (numbered from 0) holding the k-th smallest value of column j
argsort_axis0(a) ==
    {[k \in DOMAIN a |-> [j \in DOMAIN a |-> order[j][k] - 1]] :
        order \in {o \in [DOMAIN a -> IndexOrders(Len(a))] :
                      \A j \in DOMAIN a : o[j] \in argsort(Column(a, j))}}

\* a[:, 1:n][:, ::-1]: the columns 1 .. n - 1 (numbered from 0) of every
\* row, last one first
columns_reversed(a, n) ==
    LET hi == IF n < Len(a) THEN n ELSE Len(a)
        w  == IF hi > 1 THEN hi - 1 ELSE 0
    IN  [k \in DOMAIN a |-> [c \in 1 .. w |-> a[k][hi - c + 1]]]

\* the list read_pair_file builds from pair_idx, reading the row of every view
\* at the index the source uses
pair_data_from(indices, row_of) ==
    [v \in DOMAIN indices |->
        [ref_view |-> v - 1, src_views |-> indices[row_of[v]]]]

\* the index src_views is read at: i, which the first loop left at
\* num_viewpoint - 1
row_read(num_viewpoint) == [v \in 1 .. num_viewpoint |-> num_viewpoint]

\* read_pair_file(pairs, nviews)
ReadPairFile ==
    /\ rp_pc = "call"
    /\ LET num_viewpoint == Len(pairs)
           masked == mask_diagonal(pairs)
       IN  /\ pairs' = masked
           /\ \E sorted \in argsort_axis0(masked) :
                  /\ pair_idx' = columns_reversed(sorted, nviews)
                  /\ rp_data' = Some(pair_data_from(pair_idx', row_read(num_viewpoint)))
    /\ rp_pc' = "read_pair_file"
    /\ UNCHANGED <<nviews, run_vars, fd_vars, ell_vars, db_vars, plot_vars>>

\* filter_depth, lines 153-183: every entry of pair_data is unpacked and its
\* source views index the cameras and the depth maps
FilterDepthLoop ==
    /\ rp_pc = "read_pair_file"
    /\ rp_pc' = "filter_depth"
    /\ UNCHANGED <<pairs, nviews, pair_idx, rp_data, run_vars, fd_vars, ell_vars,
                   db_vars, plot_vars>>

\* the largest number of viewpoints
MaxViews == 3

\* the scores of a pair of views
Scores == {1, 2}

SquareArrays(V) == [1 .. V -> [1 .. V -> Scores]]

ReadPairInit ==
    /\ \E V \in 0 .. MaxViews :
           /\ pairs \in SquareArrays(V)
           /\ nviews \in 0 .. (V + 1)
    /\ pair_idx = <<>>
    /\ rp_pc = "call"
    /\ rp_data = None
    /\ NoRunCall
    /\ NoFilterCall
    /\ NoEllipsoidCall
    /\ NoDashboardCall
    /\ NoPlotCall

ReadPairNext ==
    \/ ReadPairFile
    \/ FilterDepthLoop

ReadPairSpec == ReadPairInit /\ [][ReadPairNext]_vars

-----------------------------------------------------------------------------
(* visualize_benchmark_comparison.py: plot_colored_table.  A float is      *)
(* Some(v), standing for v / Scale, or NaN; an array is a sequence of rows. *)

\* the fixed point of the floats: five decimals
Scale == 100000

MIN_RENDERABLE_PERCENT_CHANGE == -20
MAX_RENDERABLE_PERCENT_CHANGE == 20

\* round(x, decimals) and np.round(x, decimals): the nearest multiple of
\* 10^-decimals, a tie going to the even one; nan stays nan
round_decimals(x, decimals) ==
    IF x = NaN THEN NaN
    ELSE LET step == IF decimals = 4 THEN Scale \div 10000
                     ELSE IF decimals = 1 THEN Scale \div 10
                     ELSE Scale
             q    == x[1] \div step
             r    == x[1] % step
         IN  IF 2 * r < step THEN Some(q * step)
             ELSE IF 2 * r > step THEN Some((q + 1) * step)
             ELSE IF q % 2 = 0 THEN Some(q * step) ELSE Some((q + 1) * step)

\* np.clip(tab_data, a_min, a_max) of one entry: nan stays nan
clip(x, a_min, a_max) ==
    IF x = NaN THEN NaN
    ELSE IF x[1] < a_min * Scale THEN Some(a_min * Scale)
    ELSE IF x[1] > a_max * Scale THEN Some(a_max * Scale)
    ELSE x

\* tab_data.size
size(a) == IF a = <<>> THEN 0 ELSE Len(a) * Len(a[1])

\* 'Master_val: {}<br />Branch_val: {}<br />Percentage: {}'.format(...)
hover_format(master, branch, percentage) ==
    [Master_val |-> master, Branch_val |-> branch, Percentage |-> percentage]

\* str(np.round(tab_data[i, j], 1)) + "%"
annotation_text(x) == <<round_decimals(x, 1), "%">>

\* the string '' and the string fig.to_html makes of a figure
EmptyString == <<>>
to_html(fig) == <<fig>>

\* plot_colored_table(new_values, old_values, row_labels, col_labels, tab_data)
plot_colored_table(new_values, old_values, row_labels, col_labels, tab_data) ==
    IF size(tab_data) = 0
    THEN EmptyString
    ELSE LET tab_data_clipped ==
                 [i \in DOMAIN tab_data |-> [j \in DOMAIN tab_data[i] |->
                     clip(tab_data[i][j], MIN_RENDERABLE_PERCENT_CHANGE,
                          MAX_RENDERABLE_PERCENT_CHANGE)]]
             hovertext ==
                 [yi \in DOMAIN col_labels |-> [xi \in DOMAIN row_labels |->
                     hover_format(old_values[yi][xi], new_values[yi][xi],
                                  tab_data[yi][xi])]]
             num_rows == Len(tab_data)
             num_cols == Len(tab_data[1])
             annotations ==
                 [n \in 1 .. (num_rows * num_cols) |->
                     LET i == ((n - 1) \div num_cols) + 1
                         j == ((n - 1) % num_cols) + 1
                     IN  [text |-> annotation_text(tab_data[i][j]),
                          x |-> row_labels[j], y |-> col_labels[i]]]
         IN  to_html([z |-> tab_data_clipped, x |-> row_labels, y |-> col_labels,
                      text |-> hovertext,
                      zmin |-> (0 - MIN_RENDERABLE_PERCENT_CHANGE) * Scale,
                      zmax |-> MAX_RENDERABLE_PERCENT_CHANGE * Scale,
                      annotations |-> annotations])

PlotColoredTable ==
    /\ plot_pc = "call"
    /\ plot_ret' = Some(plot_colored_table(plot_args.new_values, plot_args.old_values,
                                           plot_args.row_labels, plot_args.col_labels,
                                           plot_args.tab_data))
    /\ plot_pc' = "plot_colored_table"
    /\ UNCHANGED <<plot_args, run_vars, fd_vars, ell_vars, rp_vars, db_vars>>

\* generate_dashboard writes what plot_colored_table returned to the file
WriteTableHtml ==
    /\ plot_pc = "plot_colored_table"
    /\ plot_pc' = "written"
    /\ UNCHANGED <<plot_args, plot_ret, run_vars, fd_vars, ell_vars, rp_vars, db_vars>>

\* the largest number of metrics and of benchmarks of a table
MaxTableRows == 2
MaxTableCols == 2

\* percentage changes: -25, -20, 12.34, 20 and 30 percent, and nan
PercentValues ==
    {Some(0 - 25 * Scale), Some(0 - 20 * Scale), Some(1234000), Some(20 * Scale),
     Some(30 * Scale), NaN}

\* the values of a metric on master and on the branch
MetricValues == {Some(Scale), Some(2 * Scale)}

BenchmarkNames == <<"b1.zip", "b2.zip">>
MetricNames == <<"m1", "m2">>

Arrays(num_rows, num_cols, values) == [1 .. num_rows -> [1 .. num_cols -> values]]

PlotInit ==
    /\ \E num_rows \in 0 .. MaxTableRows, num_cols \in 0 .. MaxTableCols :
       \E Z \in Arrays(num_rows, num_cols, PercentValues),
          v \in Arrays(num_rows, num_cols, MetricValues) :
           plot_args = [new_values |-> v,
                        old_values |-> [i \in 1 .. num_rows |->
                                          [j \in 1 .. num_cols |-> Some(Scale)]],
                        row_labels |-> SubSeq(BenchmarkNames, 1, num_cols),
                        col_labels |-> SubSeq(MetricNames, 1, num_rows),
                        tab_data |-> Z]
    /\ plot_pc = "call"
    /\ plot_ret = None
    /\ NoRunCall
    /\ NoFilterCall
    /\ NoEllipsoidCall
    /\ NoPairFileCall
    /\ NoDashboardCall

PlotNext ==
    \/ PlotColoredTable
    \/ WriteTableHtml

PlotSpec == PlotInit /\ [][PlotNext]_vars

-----------------------------------------------------------------------------
(* visualize_benchmark_comparison.py: generate_dashboard.  What is written *)
(* to the file f is a sequence of pieces; a row of a merged table is       *)
(* <<metric_name, master_val, branch_val>>.                                *)

TABLE_NAMES ==
    <<"Verifier Summary", "Inlier Support Processor Summary",
      "Rotation Cycle Consistency Metrics", "Cycle Consistent Frontend Summary",
      "Averaging Metrics", "Data Association Metrics", "Bundle Adjustment Metrics">>

\* a piece written to f: its kind, the table it belongs to, the html of a table
piece(kind, table_name, html) == [kind |-> kind, table |-> table_name, html |-> html]

\* zip_fname[:MAX_NUM_CHARS_ARTIFACT_FNAME], the first 35 characters, of the
\* file names of the model
first_chars(zip_fname) ==
    IF zip_fname = "a-name-of-more-than-thirty-five-characters.zip"
    THEN "a-name-of-more-than-thirty-five-cha"
    ELSE zip_fname

\* "error" in metric_name and "outlier" not in metric_name
smaller_is_better(metric_name) ==
    /\ metric_name \in {"rotation_error_deg", "outlier_error"}
    /\ metric_name \notin {"outlier_error"}

\* benchmark_table_vals[metric_name][zip_fname] = triple, the metric names in
\* the order they were first inserted
set_vals(vals, metric_name, zip_fname, triple) ==
    IF \E k \in DOMAIN vals : vals[k].metric_name = metric_name
    THEN [k \in DOMAIN vals |->
             IF vals[k].metric_name = metric_name
             THEN [vals[k] EXCEPT !.of = (zip_fname :> triple) @@ vals[k].of]
             ELSE vals[k]]
    ELSE Append(vals, [metric_name |-> metric_name, of |-> (zip_fname :> triple)])

\* lines 204-215: the loop over the rows of one merged table; float(None)
\* raises TypeError
RECURSIVE record_metrics(_, _, _)
record_metrics(rows, zip_fname, vals) ==
    IF rows = <<>>
    THEN [vals |-> vals, raised |-> NoException]
    ELSE LET metric_name == Head(rows)[1]
             master_val  == Head(rows)[2]
             branch_val  == Head(rows)[3]
             change  == IF branch_val = None THEN NaN
                        ELSE compute_percentage_change[<<master_val, branch_val>>]
             percentage_change ==
                 IF smaller_is_better(metric_name) /\ change # NaN
                 THEN Some(0 - change[1])
                 ELSE change
         IN  IF master_val = None \/ branch_val = None
             THEN [vals |-> vals, raised |-> "TypeError"]
             ELSE record_metrics(Tail(rows), zip_fname,
                      set_vals(vals, metric_name, zip_fname,
                               <<round_decimals(master_val, 4),
                                 round_decimals(branch_val, 4),
                                 round_decimals(percentage_change, 4)>>))

\* lines 217-236: one row per metric and one column per benchmark of the
\* entry at position part of the triples, nan where a benchmark has no value
table_rows(vals, part) ==
    [k \in DOMAIN vals |-> [z \in DOMAIN zip_artifact_fnames |->
        IF zip_artifact_fnames[z] \in DOMAIN vals[k].of
        THEN vals[k].of[zip_artifact_fnames[z]][part]
        ELSE NaN]]

\* lines 177-181: the file is opened and the headers are written; the loop
\* over TABLE_NAMES starts
WriteHeaders ==
    /\ db_pc = "call"
    /\ written' = <<piece("<!DOCTYPE html><html>", "", EmptyString),
                    piece("get_html_header", "", EmptyString)>>
    /\ table_idx' = 1
    /\ zip_idx' = 1
    /\ benchmark_table_vals' = <<>>
    /\ db_pc' = "table"
    /\ UNCHANGED <<zip_artifact_fnames, merged_tables, compute_percentage_change,
                   db_raised, run_vars, fd_vars, ell_vars, rp_vars, plot_vars>>

\* lines 192-215: one benchmark of the table
ReadBenchmark ==
    /\ db_pc = "table"
    /\ zip_idx <= Len(zip_artifact_fnames)
    /\ LET zip_fname == zip_artifact_fnames[zip_idx]
           merged_tables_dict == merged_tables[zip_fname]
           done == record_metrics(merged_tables_dict[TABLE_NAMES[table_idx]],
                                  zip_fname, benchmark_table_vals)
       IN  /\ benchmark_table_vals' = done.vals
           /\ db_raised' = done.raised
           /\ IF done.raised = NoException
              THEN zip_idx' = zip_idx + 1 /\ db_pc' = "table"
              ELSE zip_idx' = zip_idx /\ db_pc' = "raised"
    /\ UNCHANGED <<zip_artifact_fnames, merged_tables, compute_percentage_change,
                   written, table_idx, run_vars, fd_vars, ell_vars, rp_vars, plot_vars>>

\* lines 217-248: the table is plotted; its heading, its html and the closing
\* tag are written, and the loop goes to the next table or the function returns
WriteTable ==
    /\ db_pc = "table"
    /\ zip_idx > Len(zip_artifact_fnames)
    /\ LET table_name == TABLE_NAMES[table_idx]
           X == [z \in DOMAIN zip_artifact_fnames |-> first_chars(zip_artifact_fnames[z])]
           Y == [k \in DOMAIN benchmark_table_vals |-> benchmark_table_vals[k].metric_name]
           Z == table_rows(benchmark_table_vals, 3)
           new_values == table_rows(benchmark_table_vals, 2)
           old_values == table_rows(benchmark_table_vals, 1)
           table_html == plot_colored_table(new_values, old_values, X, Y, Z)
       IN  written' = written \o
               <<piece("get_html_metric_heading", table_name, EmptyString),
                 piece("table_html", table_name, table_html),
                 piece("</html>", "", EmptyString)>>
    /\ IF table_idx < Len(TABLE_NAMES)
       THEN table_idx' = table_idx + 1 /\ db_pc' = "table"
       ELSE table_idx' = table_idx /\ db_pc' = "returned"
    /\ zip_idx' = 1
    /\ benchmark_table_vals' = <<>>
    /\ UNCHANGED <<zip_artifact_fnames, merged_tables, compute_percentage_change,
                   db_raised, run_vars, fd_vars, ell_vars, rp_vars, plot_vars>>

\* the merged tables of the model: the value on master, and the value on the
\* branch or None where the branch has no such metric
Row(metric_name, branch_val) == <<metric_name, Some(Scale), branch_val>>

RowLists ==
    {<<>>,
     <<Row("num_inliers", Some(123456))>>,
     <<Row("rotation_error_deg", Some(123456))>>,
     <<Row("outlier_error", Some(123456))>>,
     <<Row("num_inliers", Some(123456)), Row("rotation_error_deg", Some(123456))>>,
     <<Row("num_inliers", None)>>,
     <<Row("rotation_error_deg", Some(123456)), Row("num_inliers", None)>>}

\* -25.00004 and 5.12346 percent
PercentChanges == {Some(0 - 2500004), Some(512346)}

BenchmarkLists ==
    {<<>>, <<"b1.zip">>, <<"b1.zip", "a-name-of-more-than-thirty-five-characters.zip">>}

DashboardInit ==
    /\ zip_artifact_fnames \in BenchmarkLists
    /\ \E special \in Range(TABLE_NAMES), rows \in [Range(zip_artifact_fnames) -> RowLists] :
           merged_tables = [zip_fname \in Range(zip_artifact_fnames) |->
                               [table_name \in Range(TABLE_NAMES) |->
                                   IF table_name = special THEN rows[zip_fname]
                                   ELSE <<Row("num_inliers", Some(123456))>>]]
    /\ compute_percentage_change \in [{<<Some(Scale), Some(123456)>>} -> PercentChanges]
    /\ written = <<>>
    /\ table_idx = 0
    /\ zip_idx = 0
    /\ benchmark_table_vals = <<>>
    /\ db_pc = "call"
    /\ db_raised = NoException
    /\ NoRunCall
    /\ NoFilterCall
    /\ NoEllipsoidCall
    /\ NoPairFileCall
    /\ NoPlotCall

DashboardNext ==
    \/ WriteHeaders
    \/ ReadBenchmark
    \/ WriteTable

DashboardSpec == DashboardInit /\ [][DashboardNext]_vars

-----------------------------------------------------------------------------
(* What the claims speak of.                                               *)

SceneTracks == triangulated_data.tracks

\* the track triangulate returned for input track j is in the scene
InScene(j) ==
    /\ results[j].sfm_track # None
    /\ \E p \in DOMAIN SceneTracks : SceneTracks[p] = results[j].sfm_track[1]

\* how many of the first j input tracks are not in the scene
RejectedUpTo(j) == Cardinality({i \in 1 .. j : ~InScene(i)})

ContiguousKeys(cams) == CameraKeys(cams) = 0 .. (Len(cams) - 1)

\* the (image, keypoint index) nodes of a 2D track
TrackNodes(track) == {track.measurements[j].uv : j \in DOMAIN track.measurements}

\* the correspondence graph, whatever the order of the rows
Linked(E, a, b) ==
    \E e \in E : \/ (a = <<e.i1, e.k1>> /\ b = <<e.i2, e.k2>>)
                 \/ (b = <<e.i1, e.k1>> /\ a = <<e.i2, e.k2>>)

RECURSIVE Reachable(_, _, _)
Reachable(E, N, S) ==
    LET T == S \cup {b \in N : \E a \in S : Linked(E, a, b)}
    IN  IF T = S THEN S ELSE Reachable(E, N, T)

Components(corr) ==
    {Reachable(Range(corr), CorrNodes(corr), {n}) : n \in CorrNodes(corr)}

\* two nodes of the same image
HasConflict(C) == \E a \in C, b \in C : a # b /\ a[1] = b[1]

BuiltTracks == {TrackNodes(tracks_2d[j]) : j \in DOMAIN tracks_2d}

-----------------------------------------------------------------------------
(* The claims.                                                             *)

\* C1: for every 2D track and every result of the initializer, the
\* triangulated track is in the scene iff the result is not None and has at
\* least min_track_len measurements (so with min_track_len = 3 a result with
\* 2 measurements is never added).
C1_AcceptedIffLongEnough ==
    \A j \in DOMAIN results :
        InScene(j) <=>
            (/\ results[j].sfm_track # None
             /\ number_measurements(results[j].sfm_track[1]) >= self.min_track_len)

C1_Witness ==
    /\ self.min_track_len = 3
    /\ \E j \in DOMAIN results :
           /\ results[j].sfm_track # None
           /\ number_measurements(results[j].sfm_track[1]) = 2
           /\ results[j].avg_track_reproj_error = Some(1)
           /\ ~InScene(j)
    /\ \E j \in DOMAIN results : InScene(j)

\* C2 as stated: for a returned run, accepted_tracks_ratio + rejected_count /
\* input_count = 1 exactly (the ratio is in thousandths, the equation is
\* multiplied by 1000 * input_count).
C2_RatioSumIsOne ==
    pc = "returned" =>
        (ret[1].metrics.accepted_tracks_ratio * Len(tracks_2d))
            + (1000 * Len(ret[1].metrics.per_rejected_track_avg_errors))
          = 1000 * Len(tracks_2d)

\* C2 as amended: every input track is counted once, as accepted or as
\* rejected, and the reported ratio is accepted / input rounded to three
\* decimals: the sum differs from 1 by at most 0.0005.
C2_CountedOnceRatioRounded ==
    pc = "returned" =>
        LET m == ret[1].metrics
            n == Len(tracks_2d)
            d == (m.accepted_tracks_ratio * n) - (1000 * m.num_accepted_tracks)
        IN  /\ n > 0
            /\ m.num_accepted_tracks = Len(ret[1].scene.tracks)
            /\ m.num_accepted_tracks + Len(m.per_rejected_track_avg_errors) = n
            /\ Len(m.per_accepted_track_avg_errors) = m.num_accepted_tracks
            /\ 2 * d <= n
            /\ -(2 * d) <= n

C2_Witness ==
    /\ pc = "returned"
    /\ Len(tracks_2d) = 3
    /\ ret[1].metrics.num_accepted_tracks = 2
    /\ ret[1].metrics.accepted_tracks_ratio = 667

\* C3: with zero 2D tracks run does not crash on the division by the number
\* of tracks.
C3_NoCrashOnZeroTracks ==
    (pc # "tracks" /\ Len(tracks_2d) = 0) => raised # "ZeroDivisionError"

\* C4: a camera dict whose keys are not 0..N-1 never yields a return value:
\* the camera loop cannot complete, run ends in an exception, and no scene
\* with fewer cameras than supplied is returned.
C4_GapAborts ==
    /\ ~ContiguousKeys(cameras) =>
           /\ ret = None
           /\ pc # "returned"
           /\ pc = "cameras" => cam_idx <= Len(cameras)
    /\ ret # None => Len(ret[1].scene.cameras) = Len(cameras)

C4_Witness ==
    /\ CameraKeys(cameras) = {0, 2}
    /\ pc = "raised"
    /\ raised = "IndexError"
    /\ Len(results) = Len(tracks_2d)
    /\ Len(tracks_2d) > 0

\* C5: in a returned scene the camera at position k is cameras[k], for every
\* insertion order of the camera dict.
C5_CameraAtItsIndex ==
    pc = "returned" =>
        \A j \in DOMAIN cameras :
            ret[1].scene.cameras[cameras[j].key + 1] = cameras[j].cam

\* C6: a track whose triangulation reports a cheirality failure is not in the
\* scene, and its error is in the rejected list (at the track's place among
\* the rejected), the accepted list holding the accepted tracks' errors only.
C6_CheiralityFailureRejected ==
    \A j \in DOMAIN results :
        results[j].is_cheirality_failure =>
            /\ ~InScene(j)
            /\ RejectedUpTo(j) \in DOMAIN per_rejected_track_avg_errors
            /\ per_rejected_track_avg_errors[RejectedUpTo(j)]
                   = results[j].avg_track_reproj_error
            /\ Len(per_accepted_track_avg_errors) = Len(SceneTracks)

C6_Witness ==
    /\ pc = "returned"
    /\ \E j \in DOMAIN results :
           /\ results[j].is_cheirality_failure
           /\ results[j].avg_track_reproj_error = Some(1)
    /\ \E j \in DOMAIN results : InScene(j)

\* C7: the loop over the 2D tracks always reaches the end of the list, with
\* every input track triangulated and classified, whatever tracks fail.
\* Inside the loop a step is always possible; a step at track idx classifies
\* that track and moves to the next one, and the loop is left only after the
\* last track, all of them classified.
C7_LoopClassifiesAll ==
    /\ [](pc = "triangulate" => ENABLED (TriangulateTrack \/ ComputeRatios))
    /\ [][pc = "triangulate" =>
             IF idx <= Len(tracks_2d)
             THEN /\ pc' = "triangulate"
                  /\ idx' = idx + 1
                  /\ Len(results') = idx
                  /\ Len(per_accepted_track_avg_errors')
                         + Len(per_rejected_track_avg_errors') = idx
             ELSE /\ pc' # "triangulate"
                  /\ Len(results) = Len(tracks_2d)
                  /\ Len(per_accepted_track_avg_errors)
                         + Len(per_rejected_track_avg_errors) = Len(tracks_2d)]_vars

C7_Witness ==
    /\ pc = "cameras"
    /\ \E j \in DOMAIN results :
           /\ results[j].sfm_track = None
           /\ \E i \in DOMAIN results : i > j /\ InScene(i)

C9_DistinctImages ==
    pc # "tracks" =>
        /\ \A j \in DOMAIN tracks_2d :
               \A a, b \in DOMAIN tracks_2d[j].measurements :
                   a # b => tracks_2d[j].measurements[a].i
                                # tracks_2d[j].measurements[b].i
        /\ \A C \in Components(corr_idxs_dict) :
               IF HasConflict(C)
               THEN \A T \in BuiltTracks : T \cap C = {}
               ELSE C \in BuiltTracks

C9_Witness ==
    /\ pc # "tracks"
    /\ Len(tracks_2d) = 1
    /\ \E C \in Components(corr_idxs_dict) : HasConflict(C)

\* C10: the built tracks are exactly the connected components of the
\* correspondence graph (one track per component, merged transitively), in
\* any order of the rows; three rows linking one keypoint per image over the
\* pairs (0,1), (1,2), (0,2) give one track of length 3.
C10_TracksAreComponents ==
    pc # "tracks" =>
        /\ BuiltTracks \subseteq Components(corr_idxs_dict)
        /\ Cardinality(BuiltTracks) = Len(tracks_2d)
        /\ Len(tracks_2d)
               = Cardinality({C \in Components(corr_idxs_dict) : ~HasConflict(C)})
        /\ \A j \in DOMAIN tracks_2d :
               number_measurements(tracks_2d[j]) = Cardinality(TrackNodes(tracks_2d[j]))
        /\ (/\ Len(corr_idxs_dict) = 3
            /\ {<<corr_idxs_dict[j].i1, corr_idxs_dict[j].i2>> : j \in 1 .. 3}
                   = {<<0, 1>>, <<1, 2>>, <<0, 2>>}
            /\ Cardinality(CorrNodes(corr_idxs_dict)) = 3)
           => (Len(tracks_2d) = 1 /\ number_measurements(tracks_2d[1]) = 3)

C10_Witness ==
    /\ pc # "tracks"
    /\ Len(corr_idxs_dict) = 3
    /\ <<corr_idxs_dict[1].i1, corr_idxs_dict[1].i2>> = <<0, 2>>
    /\ <<corr_idxs_dict[2].i1, corr_idxs_dict[2].i2>> = <<1, 2>>
    /\ <<corr_idxs_dict[3].i1, corr_idxs_dict[3].i2>> = <<0, 1>>
    /\ Len(tracks_2d) = 1
    /\ number_measurements(tracks_2d[1]) = 3

\* C11: two calls of run with the same configuration, cameras, correspondences
\* and keypoints return the same scene (the same accepted tracks in the same
\* order) and the same metrics, in RANSAC mode too.
C11_SameInputsSameResult ==
    (pc = "returned" /\ rerun.no = 2) => ret = rerun.prev

\* without RANSAC the second call does return what the first returned
DirectModeRepeats ==
    (pc = "returned" /\ rerun.no = 2 /\ self.mode = "NO_RANSAC") => ret = rerun.prev

\* what triangulate_sampled returns is among what triangulate may return
SampledIsTriangulate ==
    (pc = "triangulate" /\ idx <= Len(tracks_2d)) =>
        \A P \in MinimalSubsets(Len(tracks_2d[idx].measurements)) :
            triangulate_sampled(point3d_initializer[1], tracks_2d[idx], idx, P)
                \in triangulate(point3d_initializer[1], tracks_2d[idx], idx)

\* C12: run leaves its inputs as they were: no step of run, on the way to a
\* return or to an exception, changes the cameras, the correspondences, the
\* keypoints or a field of the configuration.
C12_InputsUnchanged ==
    [][/\ cameras' = cameras
       /\ corr_idxs_dict' = corr_idxs_dict
       /\ keypoints_list' = keypoints_list
       /\ self'.reproj_error_thresh = self.reproj_error_thresh
       /\ self'.min_track_len = self.min_track_len
       /\ self'.mode = self.mode
       /\ self'.num_ransac_hypotheses = self.num_ransac_hypotheses]_vars

\* a run that accepted a track, added its cameras and returned
C12_Witness ==
    /\ pc = "returned"
    /\ Len(SceneTracks) > 0
    /\ Len(corr_idxs_dict) > 0
    /\ Len(triangulated_data.cameras) = Len(cameras)

\* C13: when the keys of the camera dict are not 0..N-1, the exception the
\* camera loop ends in is the RuntimeError of the index check.
C13_GapRaisesRuntimeError ==
    (~ContiguousKeys(cameras) /\ pc = "raised" /\ cam_idx > 0) =>
        raised = "RuntimeError"

\* the input tracks processed so far whose triangulation reported a cheirality
\* failure
Flagged == {j \in DOMAIN results : results[j].is_cheirality_failure}

\* C14: the counter of cheirality failures is the number of processed input
\* tracks that triangulate flagged, each counted once, so that it lies between
\* 0 and the number of input tracks; once the loop is over
\* track_cheirality_failure_ratio is that number over the number of input
\* tracks, and the metric run reports is this ratio rounded to three decimals.
C14_CheiralityRatio ==
    /\ num_tracks_w_cheirality_exceptions = Cardinality(Flagged)
    /\ 0 <= num_tracks_w_cheirality_exceptions
    /\ num_tracks_w_cheirality_exceptions <= Len(results)
    /\ Len(results) <= Len(tracks_2d)
    /\ ratios.track_cheirality_failure_ratio # NaN =>
           /\ Len(results) = Len(tracks_2d)
           /\ ratios.track_cheirality_failure_ratio =
                  <<Cardinality(Flagged), Len(tracks_2d)>>
    /\ pc = "returned" =>
           LET d == (ret[1].metrics.track_cheirality_failure_ratio * Len(tracks_2d))
                        - (1000 * Cardinality(Flagged))
           IN  2 * d <= Len(tracks_2d) /\ -(2 * d) <= Len(tracks_2d)

\* of three input tracks one is flagged, one is rejected without a flag and
\* one is accepted
C14_Witness ==
    /\ pc = "returned"
    /\ Len(tracks_2d) = 3
    /\ Cardinality(Flagged) = 1
    /\ ratios.track_cheirality_failure_ratio = <<1, 3>>
    /\ ret[1].metrics.track_cheirality_failure_ratio = 333
    /\ \E j \in DOMAIN results : ~InScene(j) /\ ~results[j].is_cheirality_failure
    /\ \E j \in DOMAIN results : InScene(j)

\* the input tracks that were accepted with exactly k measurements
AcceptedWithLen(k) ==
    {j \in DOMAIN results :
        InScene(j) /\ number_measurements(results[j].sfm_track[1]) = k}

\* the input tracks that were accepted with fewer than 2 or more than 10
\* measurements
AcceptedOffHistogram ==
    {j \in DOMAIN results :
        /\ InScene(j)
        /\ \/ number_measurements(results[j].sfm_track[1]) < 2
           \/ number_measurements(results[j].sfm_track[1]) > 10}

\* C15: for k = 2..10 the metric num_len_k_tracks is the number of accepted
\* tracks with exactly k measurements; the nine counts and the number of
\* accepted tracks outside 2..10 add up to num_accepted_tracks; and the count
\* is 0 for every k below min_track_len.
C15_LengthHistogram ==
    pc = "returned" =>
        LET m == ret[1].metrics
        IN  /\ \A k \in 2 .. 10 : m.num_len_tracks[k] = Cardinality(AcceptedWithLen(k))
            /\ SumSeq([k \in 1 .. 9 |-> m.num_len_tracks[k + 1]])
                    + Cardinality(AcceptedOffHistogram) = m.num_accepted_tracks
            /\ \A k \in 2 .. 10 : k < self.min_track_len => m.num_len_tracks[k] = 0

\* a returned run that accepted a track of three measurements and rejected a
\* track of two as shorter than min_track_len
C15_Witness ==
    /\ pc = "returned"
    /\ self.min_track_len = 3
    /\ ret[1].metrics.num_len_tracks[3] = 1
    /\ ret[1].metrics.num_len_tracks[2] = 0
    /\ \E j \in DOMAIN results :
           /\ results[j].sfm_track # None
           /\ number_measurements(results[j].sfm_track[1]) = 2

\* how many of the first j input tracks are in the scene
AcceptedUpTo(j) == Cardinality({i \in 1 .. j : InScene(i)})

\* C20: in what run returns, the tracks of the scene, points_3d and
\* per_accepted_track_avg_errors have the same length num_accepted_tracks; the
\* accepted tracks stand in the order of the input 2D tracks; and the point and
\* the error at position p are those of the scene track at position p.
C20_AcceptedOutputsAligned ==
    pc = "returned" =>
        LET m     == ret[1].metrics
            scene == ret[1].scene
        IN  /\ m.num_accepted_tracks = Len(scene.tracks)
            /\ Len(m.points_3d) = Len(scene.tracks)
            /\ Len(m.per_accepted_track_avg_errors) = Len(scene.tracks)
            /\ AcceptedUpTo(Len(results)) = Len(scene.tracks)
            /\ \A j \in DOMAIN results :
                   InScene(j) =>
                       LET p == AcceptedUpTo(j)
                       IN  /\ scene.tracks[p] = results[j].sfm_track[1]
                           /\ m.points_3d[p] = results[j].sfm_track[1].point3
                           /\ m.per_accepted_track_avg_errors[p] =
                                  results[j].avg_track_reproj_error
                           /\ Range(scene.tracks[p].measurements)
                                  \subseteq Range(tracks_2d[j].measurements)

\* two accepted tracks with different errors around a rejected one
C20_Witness ==
    /\ pc = "returned"
    /\ Len(results) = 3
    /\ InScene(1) /\ ~InScene(2) /\ InScene(3)
    /\ ret[1].metrics.per_accepted_track_avg_errors = <<Some(2), Some(1)>>
    /\ ret[1].metrics.points_3d = <<<<"pt", 1>>, <<"pt", 3>>>>

\* C16: filter_by_response returns at most max_keypoints keypoints and at most
\* as many as it was handed, with or without responses, and as many
\* descriptor rows as keypoints.
C16_AtMostMaxKeypoints ==
    fd_pc = "filter_by_response" =>
        LET N == Len(fd_ret[1].keypoints.coordinates)
        IN  /\ N <= max_keypoints
            /\ N <= Len(keypoints.coordinates)
            /\ Len(fd_ret[1].descriptors) = N

\* the inside of the mask: 0 <= y < H and 0 <= x < W
InsideMask(msk, y, x) ==
    0 <= y /\ y < Len(msk) /\ 0 <= x /\ x < Len(msk[1])

\* the positions of the keypoints whose rounded coordinates address a cell of
\* the mask that holds 1, ascending
OnMask ==
    LET rc == rounded_coordinates(keypoints)
    IN  flatnonzero([j \in DOMAIN rc |->
                        /\ InsideMask(mask, rc[j][2], rc[j][1])
                        /\ mask[rc[j][2] + 1][rc[j][1] + 1] = 1])

\* C17: what filter_by_mask returns is exactly the keypoints whose rounded
\* (x, y) address a cell mask[y, x] = 1, in their original order, with their
\* descriptors; a keypoint whose rounded coordinates are outside the mask,
\* negative ones included, is not kept.
C17_KeepsExactlyOnMask ==
    (fd_pc = "filter_by_mask" /\ fd_raised = NoException) =>
        /\ fd_ret[1].keypoints = extract_indices(keypoints, OnMask)
        /\ fd_ret[1].descriptors = take(descriptors, OnMask)
        /\ Len(fd_ret[1].keypoints.coordinates) <= Len(keypoints.coordinates)

\* a is b with some elements left out
RECURSIVE IsSubsequence(_, _)
IsSubsequence(a, b) ==
    IF a = <<>> THEN TRUE
    ELSE IF b = <<>> THEN FALSE
    ELSE IF Head(a) = Head(b) THEN IsSubsequence(Tail(a), Tail(b))
    ELSE IsSubsequence(a, Tail(b))

\* C18: remove_outlier_points returns the points of the cloud in their order
\* with the top 5% by distance from the origin removed: no kept point is
\* farther than a removed one, M = 0.95 * N when N is a multiple of 20, equal
\* distances or not, and the result is not empty unless the cloud is.
C18_RemovesTopFivePercent ==
    (ell_pc = "remove_outlier_points" /\ ell_raised = NoException) =>
        LET N    == point_cloud.shape[1]
            kept == ell_ret[1].rows
            M    == Len(kept)
        IN  /\ ell_ret[1].shape = <<M, 3>>
            /\ IsSubsequence(kept, point_cloud.rows)
            /\ \A p \in Range(kept) :
                   \A q \in Range(point_cloud.rows) \ Range(kept) :
                       SqNorm(p) <= SqNorm(q)
            /\ N % 20 = 0 => 20 * M = 19 * N
            /\ N > 0 => M > 0

EllipsoidFunctions ==
    {"center_point_cloud", "remove_outlier_points",
     "get_alignment_rotation_matrix_from_svd", "get_right_singular_vectors"}

\* C19: each of center_point_cloud, remove_outlier_points,
\* get_alignment_rotation_matrix_from_svd and get_right_singular_vectors
\* raises TypeError exactly when the second dimension of its 2-D argument is
\* not 3, and then has computed nothing.
C19_TypeErrorIffNotThreeColumns ==
    ell_pc \in EllipsoidFunctions =>
        /\ ell_raised = "TypeError" <=> point_cloud.shape[2] # 3
        /\ ell_raised = "TypeError" => ell_ret = None

\* a (N, 4) array handed to get_alignment_rotation_matrix_from_svd
C19_Witness ==
    /\ ell_pc = "get_alignment_rotation_matrix_from_svd"
    /\ point_cloud.shape = <<MaxPoints, 4>>
    /\ ell_raised = "TypeError"

\* the source positions s whose keypoint and descriptor stand at position i of
\* what filter_by_response returned
SourceOf(i) ==
    {s \in DOMAIN keypoints.coordinates :
        /\ fd_ret[1].keypoints.coordinates[i] = keypoints.coordinates[s]
        /\ fd_ret[1].keypoints.responses[1][i] = keypoints.responses[1][s]
        /\ fd_ret[1].descriptors[i] = descriptors[s]}

\* C21: with responses, filter_by_response returns min(M, max_keypoints)
\* keypoints, in non-increasing order of response, none of the keypoints left
\* out having a higher response than one returned; the i-th returned keypoint
\* and the i-th returned descriptor come from the same source index, and no
\* source index is taken twice.
C21_TopResponsesAligned ==
    (fd_pc = "filter_by_response" /\ keypoints.responses # None) =>
        LET M    == Len(keypoints.coordinates)
            out  == fd_ret[1]
            N    == Len(out.keypoints.coordinates)
            resp == out.keypoints.responses[1]
        IN  /\ N = IF M < max_keypoints THEN M ELSE max_keypoints
            /\ Len(out.descriptors) = N
            /\ Len(resp) = N
            /\ \A i \in 1 .. (N - 1) : resp[i] >= resp[i + 1]
            /\ \A i \in 1 .. N : Cardinality(SourceOf(i)) = 1
            /\ \A i, j \in 1 .. N : i # j => SourceOf(i) # SourceOf(j)
            /\ \A s \in DOMAIN keypoints.coordinates :
                   (\A i \in 1 .. N : s \notin SourceOf(i)) =>
                       \A i \in 1 .. N : keypoints.responses[1][s] <= resp[i]

\* three keypoints with the responses 1, 3, 2 and room for two
C21_Witness ==
    /\ fd_pc = "filter_by_response"
    /\ max_keypoints = 2
    /\ keypoints.responses = Some(<<1, 3, 2>>)
    /\ fd_ret[1].keypoints.responses = Some(<<3, 2>>)
    /\ fd_ret[1].descriptors = <<Descriptor(2), Descriptor(3)>>

\* C22: read_pair_file returns one (ref_view, src_views) entry per viewpoint,
\* the reference views being 0 .. num_viewpoint - 1 in ascending order, and
\* the source views of entry v are pair_idx[v], so that a reference view is
\* never in its own source list.
C22_OwnSourceList ==
    rp_pc = "read_pair_file" =>
        LET data == rp_data[1]
        IN  /\ Len(data) = Len(pairs)
            /\ \A v \in DOMAIN data :
                   /\ data[v].ref_view = v - 1
                   /\ data[v].src_views = pair_idx[v]
                   /\ data[v].ref_view \notin Range(data[v].src_views)

\* C25: plot_colored_table clips only the colour: the colour values z are in
\* [-20, +20], the colour range [zmin, zmax] is
\* [MIN_RENDERABLE_PERCENT_CHANGE, MAX_RENDERABLE_PERCENT_CHANGE] = [-20, +20],
\* every annotation and hover text shows the unclipped value of tab_data, and
\* an empty table gives the empty string.
C25_OnlyColourClipped ==
    plot_pc = "plot_colored_table" =>
        LET tab_data == plot_args.tab_data
            html     == plot_ret[1]
        IN  IF size(tab_data) = 0
            THEN html = EmptyString
            ELSE LET fig == html[1]
                 IN  /\ \A i \in DOMAIN tab_data : \A j \in DOMAIN tab_data[i] :
                            /\ tab_data[i][j] # NaN =>
                                   /\ fig.z[i][j][1] >= (0 - 20) * Scale
                                   /\ fig.z[i][j][1] <= 20 * Scale
                            /\ fig.text[i][j].Percentage = tab_data[i][j]
                            /\ \E n \in DOMAIN fig.annotations :
                                   /\ fig.annotations[n].x = plot_args.row_labels[j]
                                   /\ fig.annotations[n].y = plot_args.col_labels[i]
                                   /\ fig.annotations[n].text
                                          = annotation_text(tab_data[i][j])
                     /\ fig.zmin = MIN_RENDERABLE_PERCENT_CHANGE * Scale
                     /\ fig.zmax = MAX_RENDERABLE_PERCENT_CHANGE * Scale
                     /\ fig.zmin = (0 - 20) * Scale
                     /\ fig.zmax = 20 * Scale

\* the benchmarks of the current table whose rows have been read
BenchmarksRead ==
    IF db_pc = "table" THEN 1 .. (zip_idx - 1)
    ELSE IF db_pc = "raised" THEN 1 .. zip_idx
    ELSE {}

\* C23: in generate_dashboard a metric whose branch_val is None has its
\* percentage change recorded as NaN, and the generation continues with the
\* remaining metrics and benchmarks without raising.
C23_MissingBranchValueIsNaN ==
    \A z \in BenchmarksRead :
        LET zip_fname == zip_artifact_fnames[z]
            rows      == merged_tables[zip_fname][TABLE_NAMES[table_idx]]
        IN  \A r \in DOMAIN rows :
                rows[r][3] = None =>
                    /\ db_raised = NoException
                    /\ \E k \in DOMAIN benchmark_table_vals :
                           /\ benchmark_table_vals[k].metric_name = rows[r][1]
                           /\ zip_fname \in DOMAIN benchmark_table_vals[k].of
                           /\ benchmark_table_vals[k].of[zip_fname][3] = NaN

\* C24: generate_dashboard writes a well-ordered document: "<!DOCTYPE
\* html><html>" and the header once at the start, then for every name of
\* TABLE_NAMES in order its heading followed by its table, and "</html>" once
\* after the last table; nothing is written after the closing tag.
C24_WellOrderedDocument ==
    /\ \A k \in DOMAIN written : written[k].kind = "</html>" => k = Len(written)
    /\ db_pc = "returned" =>
           /\ Len(written) = 2 + 2 * Len(TABLE_NAMES) + 1
           /\ written[1].kind = "<!DOCTYPE html><html>"
           /\ written[2].kind = "get_html_header"
           /\ \A t \in DOMAIN TABLE_NAMES :
                  /\ written[2 * t + 1] = piece("get_html_metric_heading", TABLE_NAMES[t],
                                                EmptyString)
                  /\ written[2 * t + 2].kind = "table_html"
                  /\ written[2 * t + 2].table = TABLE_NAMES[t]
           /\ written[Len(written)].kind = "</html>"

====
